---- MODULE Spec2Model ----
(***************************************************************************)
(* Model of shell/common/native_mate_converters/callback.cc:               *)
(*   - TranslaterHolder, CallTranslater, CreateFunctionFromTranslater:     *)
(*     native callbacks exposed as script callables, with one-time         *)
(*     callables and weak-reference driven cleanup (specification Spec);   *)
(*   - DeleteOnUIThread, RefCountedGlobal, SafeV8Function: the ref-counted *)
(*     handle released on the UI thread (specification HandleSpec).        *)
(* The two halves share no state in the source; each specification leaves  *)
(* the other half's variables at their initial values.                     *)
(***************************************************************************)
EXTENDS Integers, Sequences, FiniteSets, TLC

\* ---------------------------------------------------------------- bounds
MaxCallables == 2
MaxCalls == 2
MaxDepth == 2
MaxHandles == 2
MaxRefs == 2
MaxLocals == 2

\* ---------------------------------------------------------------- inputs
\* The engine instances a process may hold.
Isolates == {"iso1", "iso2"}
\* The isolate of the process's main thread, the one Spec creates callables in.
MainIsolate == "iso1"
\* The translater handed to the n-th factory call. Every call gets its own
\* closure; the code never compares translaters, so equal ones add no case.
Translater(n) == <<"cb", n>>
ArgLists == {<<1>>, <<2>>}
Functions == {"f1", "f2"}
EmptyValue == "empty"
Threads == {"UI", "IO", "worker"}

Ids == 1..MaxCallables
Gids == 1..MaxHandles

VARIABLES
  g_call_translater,  \* the cached FunctionTemplate: "empty" or the isolate it was made in
  nextId,             \* next TranslaterHolder / callable to allocate
  holder,             \* Ids -> the TranslaterHolder object (and what became of it)
  state,              \* Ids -> the keys present in the callable's state dictionary
  callable,           \* Ids -> the bound function returned by the factory
  reachable,          \* Ids -> script still holds a reference to the callable
  stack,              \* CallTranslater activations whose translater.Run has not returned
  calls,              \* every invocation of a callable, in order, with its outcome
  runs,               \* every translater.Run, in order
  useAfterFree,       \* a freed TranslaterHolder was dereferenced
  isBrowserProcess,   \* Locker::IsBrowserProcess() of this process
  nextGid,            \* next RefCountedGlobal to allocate
  rcg,                \* Gids -> the RefCountedGlobal object
  uiQueue,            \* DeleteSoon tasks posted to the UI thread
  locals              \* the local handles NewHandle has returned

callVars == <<g_call_translater, nextId, holder, state, callable, reachable,
              stack, calls, runs, useAfterFree>>
handleVars == <<nextGid, rcg, uiQueue, locals>>
vars == <<callVars, isBrowserProcess, handleVars>>

\* ------------------------------------------------- TranslaterHolder
NoHolder ==
  [alive |-> FALSE, handle |-> "empty", weak |-> FALSE,
   translater |-> "none", destroyedBy |-> <<>>]

\* A holder whose handle was never made weak.
NewHolder_NoWeak(translater) ==
  [alive |-> TRUE, handle |-> "set", weak |-> FALSE,
   translater |-> translater, destroyedBy |-> <<>>]

\* A holder whose translater is the one of the first factory call, as if the
\* translater were kept in one shared place.
NewHolder_SharedTranslater(translater) ==
  [alive |-> TRUE, handle |-> "set", weak |-> TRUE,
   translater |-> Translater(1), destroyedBy |-> <<>>]

\* TranslaterHolder(isolate): the Global handle to a new External is set and
\* made weak with the finalizer GC; then holder->translater = translater.
NewHolder(translater) ==
  [alive |-> TRUE, handle |-> "set", weak |-> TRUE,
   translater |-> translater, destroyedBy |-> <<>>]

\* A destructor that leaves the handle and its weak registration in place.
Dtor_KeepWeak(h) == h

\* ~TranslaterHolder(): if (!handle.IsEmpty()) { ClearWeak(); Reset(); }
Dtor(h) ==
  IF h.handle # "empty"
  THEN [h EXCEPT !.weak = FALSE, !.handle = "empty"]
  ELSE h

\* delete holder: the destructor runs and the memory is freed. `path` records
\* who deleted. A second delete of the same holder is a double free; it shows
\* as a second entry of destroyedBy.
Delete(h, path) ==
  [Dtor(h) EXCEPT !.alive = FALSE, !.destroyedBy = Append(@, path)]

\* ------------------------------------------------- the state dictionary
Has(rec, key) == key \in rec

Set(rec, key) == rec \cup {key}

\* A factory that never sets the field.
NewState_Never(one_time) == {}

\* A factory that marks every callable one-time.
NewState_Always(one_time) == {"oneTime"}

\* Dictionary::CreateEmpty; if (one_time) state.Set("oneTime", true)
NewState(one_time) == IF one_time THEN Set({}, "oneTime") ELSE {}

\* A check that never finds the marker.
AlreadyCalled_Never(rec) == FALSE

\* state->Has(context, called_symbol)
AlreadyCalled(rec) == Has(rec, "called")

\* The marker write left out.
MarkCalled_Skip(rec) == rec

\* state->Set(context, called_symbol, true)
MarkCalled(rec) == Set(rec, "called")

\* No delete after Run.
FreeAfterRun_Never(one_time, h) == h

\* A delete after every Run, one-time or not.
FreeAfterRun_Always(one_time, h) == Delete(h, "explicit")

\* if (one_time) delete holder;
FreeAfterRun(one_time, h) == IF one_time THEN Delete(h, "explicit") ELSE h

OnStack(c) == \E i \in 1..Len(stack) : stack[i].c = c

\* The callable half never touches the ref-counted handle half.
HandlesUntouched == UNCHANGED <<isBrowserProcess, handleVars>>

\* ------------------------------------------------- initial state
NoCallable ==
  [made |-> FALSE, isolate |-> "none", template |-> "none",
   one_time |-> FALSE, translater |-> "none"]

NoGlobal ==
  [phase |-> "none", handle_ |-> EmptyValue, refs |-> 0, value |-> EmptyValue,
   droppedOn |-> "none", posted |-> FALSE, deletedOn |-> "none",
   copies |-> 0, releases |-> 0]

CallInit ==
  /\ g_call_translater = "empty"
  /\ nextId = 1
  /\ holder = [c \in Ids |-> NoHolder]
  /\ state = [c \in Ids |-> {}]
  /\ callable = [c \in Ids |-> NoCallable]
  /\ reachable = [c \in Ids |-> FALSE]
  /\ stack = <<>>
  /\ calls = <<>>
  /\ runs = <<>>
  /\ useAfterFree = FALSE

HandleInit ==
  /\ nextGid = 1
  /\ rcg = [g \in Gids |-> NoGlobal]
  /\ uiQueue = <<>>
  /\ locals = <<>>

\* Nothing allocated yet, in a browser process or in another one.
Init ==
  /\ CallInit
  /\ HandleInit
  /\ isBrowserProcess \in BOOLEAN

\* The same in a browser process; the callable half never reads the process
\* kind.
BrowserInit ==
  /\ CallInit
  /\ HandleInit
  /\ isBrowserProcess = TRUE

\* ------------------------------------------------- the factory
\* CreateFunctionFromTranslater(isolate, translater, one_time). The returned
\* bound function is held by the caller's script, so it starts reachable.
CreateFunctionFromTranslater(isolate, translater, one_time) ==
  /\ nextId <= MaxCallables
  /\ g_call_translater' =
       IF g_call_translater = "empty" THEN isolate ELSE g_call_translater
  /\ holder' = [holder EXCEPT ![nextId] = NewHolder(translater)]
  /\ state' = [state EXCEPT ![nextId] = NewState(one_time)]
  /\ callable' = [callable EXCEPT ![nextId] =
       [made |-> TRUE, isolate |-> isolate, template |-> g_call_translater',
        one_time |-> one_time, translater |-> translater]]
  /\ reachable' = [reachable EXCEPT ![nextId] = TRUE]
  /\ nextId' = nextId + 1
  /\ UNCHANGED <<stack, calls, runs, useAfterFree>>
  /\ HandlesUntouched

\* ------------------------------------------------- the trampoline
\* A trampoline whose already-called branch throws but does not return.
CallTranslater_FallThrough(c, a) ==
  /\ callable[c].made /\ reachable[c]
  /\ Len(calls) < MaxCalls
  /\ Len(stack) < MaxDepth
  /\ LET one_time == Has(state[c], "oneTime")
         threw == one_time /\ AlreadyCalled(state[c])
     IN  /\ state' = [state EXCEPT ![c] = IF one_time /\ ~threw THEN MarkCalled(@) ELSE @]
         /\ useAfterFree' = (useAfterFree \/ ~holder[c].alive)
         /\ runs' = Append(runs, [c |-> c, cb |-> holder[c].translater, args |-> a])
         /\ calls' = Append(calls, [c |-> c, args |-> a, nested |-> OnStack(c),
                                    result |-> IF threw THEN "threw" ELSE "running"])
         /\ stack' = Append(stack, [c |-> c, one_time |-> one_time,
                                    call |-> Len(calls) + 1])
  /\ UNCHANGED <<g_call_translater, nextId, holder, callable, reachable>>
  /\ HandlesUntouched

\* CallTranslater(external, state, args) up to the point where translater.Run
\* has been entered. Script (or a running translater) calls callable c with
\* the argument list a. The already-called branch is the whole call.
CallTranslater(c, a) ==
  /\ callable[c].made /\ reachable[c]
  /\ Len(calls) < MaxCalls
  /\ LET one_time == Has(state[c], "oneTime")
     IN  IF one_time /\ AlreadyCalled(state[c])
         THEN /\ calls' = Append(calls, [c |-> c, args |-> a, nested |-> OnStack(c),
                                         result |-> "threw"])
              /\ UNCHANGED <<state, useAfterFree, runs, stack>>
         ELSE /\ Len(stack) < MaxDepth
              /\ state' = [state EXCEPT ![c] = IF one_time THEN MarkCalled(@) ELSE @]
              /\ useAfterFree' = (useAfterFree \/ ~holder[c].alive)
              /\ runs' = Append(runs, [c |-> c, cb |-> holder[c].translater, args |-> a])
              /\ calls' = Append(calls, [c |-> c, args |-> a, nested |-> OnStack(c),
                                         result |-> "running"])
              /\ stack' = Append(stack, [c |-> c, one_time |-> one_time,
                                         call |-> Len(calls) + 1])
  /\ UNCHANGED <<g_call_translater, nextId, holder, callable, reachable>>
  /\ HandlesUntouched

\* translater.Run of the innermost activation returns, and CallTranslater
\* finishes: if (one_time) delete holder.
CallTranslaterReturn ==
  /\ stack # <<>>
  /\ LET f == stack[Len(stack)]
     IN  /\ stack' = SubSeq(stack, 1, Len(stack) - 1)
         /\ calls' = [calls EXCEPT ![f.call].result =
                        IF @ = "running" THEN "returned" ELSE @]
         /\ holder' = [holder EXCEPT ![f.c] = FreeAfterRun(f.one_time, @)]
  /\ UNCHANGED <<g_call_translater, nextId, state, callable, reachable, runs,
                 useAfterFree>>
  /\ HandlesUntouched

\* ------------------------------------------------- the collector
\* Script drops its last reference to callable c.
Unreference(c) ==
  /\ callable[c].made /\ reachable[c]
  /\ reachable' = [reachable EXCEPT ![c] = FALSE]
  /\ UNCHANGED <<g_call_translater, nextId, holder, state, callable, stack,
                 calls, runs, useAfterFree>>
  /\ HandlesUntouched

\* TranslaterHolder::GC: the finalizer registered by SetWeak fires once the
\* External is unreachable (no script reference, no activation holding it as
\* an argument) and deletes the holder.
GC(c) ==
  /\ holder[c].weak
  /\ ~reachable[c] /\ ~OnStack(c)
  /\ holder' = [holder EXCEPT ![c] = Delete(@, "finalizer")]
  /\ UNCHANGED <<g_call_translater, nextId, state, callable, reachable, stack,
                 calls, runs, useAfterFree>>
  /\ HandlesUntouched

Next ==
  \/ \E o \in BOOLEAN :
        CreateFunctionFromTranslater(MainIsolate, Translater(nextId), o)
  \/ \E c \in Ids, a \in ArgLists : CallTranslater(c, a)
  \/ CallTranslaterReturn
  \/ \E c \in Ids : Unreference(c)
  \/ \E c \in Ids : GC(c)

Spec == BrowserInit /\ [][Next]_vars

\* ------------------------------------------------- a process with two isolates
\* The steps of Next, with the factory called for any isolate of the process.
IsolateNext ==
  \/ \E i \in Isolates, o \in BOOLEAN :
        CreateFunctionFromTranslater(i, Translater(nextId), o)
  \/ \E c \in Ids, a \in ArgLists : CallTranslater(c, a)
  \/ CallTranslaterReturn
  \/ \E c \in Ids : Unreference(c)
  \/ \E c \in Ids : GC(c)

IsolateSpec == BrowserInit /\ [][IsolateNext]_vars

\* C11: every callable is bound to the template that was created for the
\* isolate the callable was created in, and the cache holds a template once
\* any callable exists.
C11_TemplatePerIsolate ==
  \A c \in Ids :
    callable[c].made =>
      /\ g_call_translater # "empty"
      /\ callable[c].template = callable[c].isolate

\* ------------------------------------------------- a translater that fails
\* An error return that leaves the callable ready for another try: the marker
\* is taken back and the holder is kept.
CallTranslaterReturnError_Retry ==
  /\ stack # <<>>
  /\ LET f == stack[Len(stack)]
     IN  /\ stack' = SubSeq(stack, 1, Len(stack) - 1)
         /\ calls' = [calls EXCEPT ![f.call].result =
                        IF @ = "running" THEN "failed" ELSE @]
         /\ state' = [state EXCEPT ![f.c] = @ \ {"called"}]
  /\ UNCHANGED <<g_call_translater, nextId, holder, callable, reachable, runs,
                 useAfterFree>>
  /\ HandlesUntouched

\* translater.Run of the innermost activation signals a host error
\* (args->ThrowError) and returns; CallTranslater does not look at the outcome
\* and finishes as after any Run: if (one_time) delete holder.
CallTranslaterReturnError ==
  /\ stack # <<>>
  /\ LET f == stack[Len(stack)]
     IN  /\ stack' = SubSeq(stack, 1, Len(stack) - 1)
         /\ calls' = [calls EXCEPT ![f.call].result =
                        IF @ = "running" THEN "failed" ELSE @]
         /\ holder' = [holder EXCEPT ![f.c] = FreeAfterRun(f.one_time, @)]
  /\ UNCHANGED <<g_call_translater, nextId, state, callable, reachable, runs,
                 useAfterFree>>
  /\ HandlesUntouched

\* The steps of Next, with translaters that may fail.
ErrorNext ==
  \/ \E o \in BOOLEAN :
        CreateFunctionFromTranslater(MainIsolate, Translater(nextId), o)
  \/ \E c \in Ids, a \in ArgLists : CallTranslater(c, a)
  \/ CallTranslaterReturn
  \/ CallTranslaterReturnError
  \/ \E c \in Ids : Unreference(c)
  \/ \E c \in Ids : GC(c)

ErrorSpec == BrowserInit /\ [][ErrorNext]_vars

\* C15: when the first Run of a one-time callable has ended with a host error,
\* the marker is set, the holder has been destroyed by the explicit delete, the
\* translater has run once only, and every other invocation threw the
\* already-called error.
C15_FailedRunConsumes ==
  \A c \in Ids :
    (callable[c].made /\ callable[c].one_time) =>
      LET cs == SelectSeq(calls, LAMBDA e : e.c = c)
      IN  (cs # <<>> /\ cs[1].result = "failed") =>
            /\ Has(state[c], "called")
            /\ ~holder[c].alive /\ holder[c].destroyedBy = <<"explicit">>
            /\ Len(SelectSeq(runs, LAMBDA e : e.c = c)) = 1
            /\ \A i \in 2..Len(cs) : cs[i].result = "threw"

\* The first Run of a one-time callable failed and the callable was invoked
\* again afterwards.
C15_Witness ==
  \E c \in Ids :
    /\ callable[c].made /\ callable[c].one_time
    /\ \E i, j \in 1..Len(calls) :
         /\ i < j
         /\ calls[i].c = c /\ calls[i].result = "failed" /\ ~calls[j].nested
         /\ calls[j].c = c /\ calls[j].result = "threw"

\* ------------------------------------------------- properties of Spec
CallsOf(c) == SelectSeq(calls, LAMBDA e : e.c = c)

RunsOf(c) == SelectSeq(runs, LAMBDA e : e.c = c)

OneTimeIds == {c \in Ids : callable[c].made /\ callable[c].one_time}

RepeatIds == {c \in Ids : callable[c].made /\ ~callable[c].one_time}

\* C1: for a callable made with one_time = true, the first invocation runs the
\* translater (exactly one Run in total once any invocation was made), every
\* later invocation throws the already-called error, and once the first
\* invocation has returned the holder is destroyed, by the explicit delete.
C1_OneTimeRunsOnce ==
  \A c \in OneTimeIds :
    LET cs == CallsOf(c)
        rs == RunsOf(c)
    IN  /\ Len(rs) = (IF cs = <<>> THEN 0 ELSE 1)
        /\ \A i \in 1..Len(cs) :
             IF i = 1 THEN cs[i].result \in {"running", "returned"}
                      ELSE cs[i].result = "threw"
        /\ (cs # <<>> /\ cs[1].result = "returned")
             => (~holder[c].alive /\ holder[c].destroyedBy = <<"explicit">>)

\* A one-time callable was invoked, returned, and was invoked again.
C1_Witness ==
  \E c \in OneTimeIds :
    /\ Len(CallsOf(c)) >= 2
    /\ CallsOf(c)[1].result = "returned"
    /\ CallsOf(c)[2].result = "threw"
    /\ Len(RunsOf(c)) = 1

\* C2: for a callable made with one_time = false, the Runs of its translater
\* are exactly its invocations: as many, in the same order, each with the
\* argument list of its invocation and the translater given to the factory,
\* and no invocation throws the already-called error.
C2_RepeatRunsEveryCall ==
  \A c \in RepeatIds :
    LET cs == CallsOf(c)
        rs == RunsOf(c)
    IN  /\ Len(rs) = Len(cs)
        /\ \A i \in 1..Len(cs) :
             /\ cs[i].result # "threw"
             /\ rs[i].args = cs[i].args
             /\ rs[i].cb = callable[c].translater

\* A repeatable callable was invoked twice, with different arguments, and
\* both invocations have returned.
C2_Witness ==
  \E c \in RepeatIds :
    /\ Len(CallsOf(c)) >= 2
    /\ CallsOf(c)[1].args # CallsOf(c)[2].args
    /\ CallsOf(c)[1].result = "returned" /\ CallsOf(c)[2].result = "returned"
    /\ Len(RunsOf(c)) >= 2

\* C3: every holder is destroyed at most once; a holder that is gone was
\* destroyed by exactly one of the finalizer and the explicit delete; after
\* the explicit delete the weak registration is gone and the handle is empty,
\* so the finalizer cannot fire for it.
C3_DestroyedOnce ==
  \A c \in Ids :
    /\ Len(holder[c].destroyedBy) <= 1
    /\ holder[c].alive => holder[c].destroyedBy = <<>>
    /\ (callable[c].made /\ ~holder[c].alive)
         => holder[c].destroyedBy \in {<<"explicit">>, <<"finalizer">>}
    /\ ~holder[c].alive => (~holder[c].weak /\ holder[c].handle = "empty")

\* One holder was deleted explicitly and its callable has since become
\* unreachable; another holder was deleted by the finalizer.
C3_Witness ==
  \E c, d \in Ids :
    /\ holder[c].destroyedBy = <<"explicit">>
    /\ ~reachable[c] /\ ~OnStack(c)
    /\ holder[d].destroyedBy = <<"finalizer">>

\* C4: no freed holder is ever dereferenced, and the holder of every
\* activation whose translater.Run has not returned is still live.
C4_NoUseAfterFree ==
  /\ ~useAfterFree
  /\ \A i \in 1..Len(stack) : holder[stack[i].c].alive

\* Two nested activations are running while another holder is already gone.
C4_Witness ==
  /\ Len(stack) >= 2
  /\ \E d \in Ids : callable[d].made /\ ~holder[d].alive

\* C5: while the translater of a one-time callable is running, the marker is
\* already in its state, so an invocation of the same callable made meanwhile
\* throws, its translater has run once only, there is one activation of it, and
\* its holder is still live.
C5_ReentryRefused ==
  \A c \in OneTimeIds :
    /\ \A i \in 1..Len(calls) :
         (calls[i].c = c /\ calls[i].nested) => calls[i].result = "threw"
    /\ OnStack(c) =>
         /\ Has(state[c], "called")
         /\ holder[c].alive
         /\ Cardinality({i \in 1..Len(stack) : stack[i].c = c}) = 1
         /\ Len(RunsOf(c)) = 1

\* A one-time callable was invoked from inside its own running translater.
C5_Witness ==
  \E c \in OneTimeIds :
    /\ OnStack(c)
    /\ \E i \in 1..Len(calls) :
         calls[i].c = c /\ calls[i].nested /\ calls[i].result = "threw"

ThrewStep ==
  /\ Len(calls') = Len(calls) + 1
  /\ calls'[Len(calls')].result = "threw"

\* C6: an invocation that throws the already-called error changes nothing but
\* the record of the call itself: state dictionaries, holders (weak
\* registrations included), Runs and activations stay as they were.
C6_ThrowChangesNothing ==
  [][ThrewStep =>
       /\ UNCHANGED <<state, holder, runs, stack, useAfterFree, reachable,
                      callable, g_call_translater, nextId>>
       /\ SubSeq(calls', 1, Len(calls)) = calls]_vars

\* An invocation threw the already-called error while its holder was gone.
C6_Witness ==
  \E i \in 1..Len(calls) :
    calls[i].result = "threw" /\ ~holder[calls[i].c].alive

\* C12: the holder of a callable made with one_time = false is live while the
\* callable is reachable from script or is being invoked; no invocation
\* destroys it; the one step that destroys it is the finalizer, taken when the
\* callable is unreachable.
C12_RepeatHolderKept ==
  /\ [](\A c \in RepeatIds :
          /\ (reachable[c] \/ OnStack(c)) => holder[c].alive
          /\ holder[c].destroyedBy \in {<<>>, <<"finalizer">>})
  /\ [][\A c \in RepeatIds :
          (holder[c].alive /\ ~holder'[c].alive) =>
            /\ ~reachable[c] /\ ~OnStack(c)
            /\ holder'[c].destroyedBy = <<"finalizer">>
            /\ UNCHANGED <<calls, runs, stack>>]_vars

\* A repeatable callable was invoked, returned, became unreachable and was
\* then finalized.
C12_Witness ==
  \E c \in RepeatIds :
    /\ Len(CallsOf(c)) >= 1
    /\ CallsOf(c)[1].result = "returned"
    /\ holder[c].destroyedBy = <<"finalizer">>

\* C14: a state dictionary holds oneTime exactly when the factory was called
\* with one_time = true, and holds nothing but oneTime and called; it holds
\* called only together with oneTime and only once the translater has been
\* started; the dictionary of a repeatable callable stays empty whatever is
\* invoked.
C14_StateRecord ==
  \A c \in Ids :
    /\ ~callable[c].made => state[c] = {}
    /\ callable[c].made =>
         /\ state[c] \subseteq {"oneTime", "called"}
         /\ Has(state[c], "oneTime") <=> callable[c].one_time
         /\ Has(state[c], "called") =>
              (Has(state[c], "oneTime") /\ Len(RunsOf(c)) >= 1)
         /\ CallsOf(c) = <<>> => ~Has(state[c], "called")
         /\ ~callable[c].one_time => state[c] = {}

\* A one-time callable carries both fields after its invocation, beside a
\* repeatable callable that was invoked too.
C14_Witness ==
  \E c \in OneTimeIds, d \in RepeatIds :
    /\ state[c] = {"oneTime", "called"}
    /\ Len(RunsOf(d)) >= 1 /\ state[d] = {}

\* What belongs to callable c alone: its state dictionary, its holder (weak
\* registration included) and the number of Runs of it.
Own(c) == <<state[c], holder[c], Len(RunsOf(c))>>

\* C16: a step changes the state dictionary, the holder or the run count of
\* one callable at most: the one invoked, the one whose Run returns, the one
\* finalized or the one just created; and every Run is of the translater that
\* was given to the factory call that made the invoked callable.
C16_Independent ==
  /\ [][LET Changed == {c \in Ids : Own(c)' # Own(c)}
        IN  /\ Cardinality(Changed) <= 1
            /\ Len(calls') > Len(calls) => Changed \subseteq {calls'[Len(calls')].c}
            /\ Len(stack') < Len(stack) => Changed \subseteq {stack[Len(stack)].c}
            /\ nextId' # nextId => Changed = {nextId}]_vars
  /\ [](\A i \in 1..Len(runs) :
          /\ runs[i].cb = callable[runs[i].c].translater
          /\ runs[i].cb = Translater(runs[i].c))

\* Of two callables, one is used up and destroyed while the other, invoked
\* too, still has its holder and an untouched state dictionary.
C16_Witness ==
  \E c, d \in Ids :
    /\ c # d
    /\ callable[c].one_time /\ holder[c].destroyedBy = <<"explicit">>
    /\ callable[d].made /\ holder[d].alive /\ Len(RunsOf(d)) >= 1
    /\ state[d] = NewState(callable[d].one_time) \cup
                    (IF callable[d].one_time THEN {"called"} ELSE {})

\* ------------------------------------------------- progress of Spec
\* Every translater.Run returns (it runs synchronously on the isolate's
\* thread), and the collector finalizes every External it finds unreachable.
LiveSpec ==
  /\ BrowserInit
  /\ [][Next]_vars
  /\ WF_vars(CallTranslaterReturn)
  /\ \A c \in Ids : WF_vars(GC(c))

\* C17: no holder leaks: the holder of a callable that has become unreachable
\* is eventually destroyed, invoked or not, one-time or not; and the holder of
\* a one-time callable that is being invoked is eventually destroyed.
C17_NoLeak ==
  \A c \in Ids :
    (\/ callable[c].made /\ ~reachable[c]
     \/ callable[c].one_time /\ OnStack(c)) ~> ~holder[c].alive

\* A one-time callable that was never invoked was finalized, and another
\* one-time callable was destroyed at the end of its invocation.
C17_Witness ==
  \E c, d \in OneTimeIds :
    /\ CallsOf(c) = <<>> /\ holder[c].destroyedBy = <<"finalizer">>
    /\ holder[d].destroyedBy = <<"explicit">>

\* ------------------------------------------------- RefCountedGlobal
\* The handle half never touches the callable half.
CallablesUntouched == UNCHANGED <<callVars, isBrowserProcess>>

OwnerThread == "UI"

\* BrowserThread::CurrentlyOn(id), asked on thread t.
CurrentlyOn(id, t) == t = id

\* v8::Global<T>(isolate, local): empty for an empty local, else a persistent
\* handle to the same object.
GlobalNew(value) == IF value = EmptyValue THEN EmptyValue ELSE value

\* A constructor that leaves handle_ empty.
RefCountedGlobal_New_Empty(value) ==
  [phase |-> "live", handle_ |-> EmptyValue, refs |-> 1, value |-> value,
   droppedOn |-> "none", posted |-> FALSE, deletedOn |-> "none",
   copies |-> 1, releases |-> 0]

\* RefCountedGlobal(isolate, value) : handle_(isolate, Local<T>::Cast(value)),
\* held by the one scoped_refptr of the new SafeV8Function.
RefCountedGlobal_New(value) ==
  [phase |-> "live", handle_ |-> GlobalNew(value), refs |-> 1, value |-> value,
   droppedOn |-> "none", posted |-> FALSE, deletedOn |-> "none",
   copies |-> 1, releases |-> 0]

\* bool IsAlive() const { return !handle_.IsEmpty(); }
RefCountedGlobal_IsAlive(x) == x.handle_ # EmptyValue

\* A NewHandle that hands out a handle to some other function.
RefCountedGlobal_NewHandle_Other(x) ==
  IF x.handle_ = EmptyValue THEN "f1" ELSE CHOOSE f \in Functions : f # x.handle_

\* v8::Local<T>::New(isolate, handle_): an empty local for an empty handle_,
\* else a new local handle to the object handle_ refers to.
RefCountedGlobal_NewHandle(x) ==
  IF x.handle_ = EmptyValue THEN EmptyValue ELSE x.handle_

\* SafeV8Function::IsAlive of a wrapper whose v8_function_ points to object g:
\* v8_function_.get() && v8_function_->IsAlive()
SafeV8Function_IsAlive(g) ==
  g \in Gids /\ RefCountedGlobal_IsAlive(rcg[g])

\* A wrapper of object g exists (some scoped_refptr still points to it).
HasWrapper(g) == rcg[g].phase = "live" /\ rcg[g].refs >= 1

\* A copy that does not take a reference.
AddRef_Skip(x) == x

\* scoped_refptr copy: RefCountedThreadSafe::AddRef
AddRef(x) == [x EXCEPT !.refs = @ + 1]

\* scoped_refptr destructor: RefCountedThreadSafe::Release, before the test
\* for zero.
Release(x) == [x EXCEPT !.refs = @ - 1]

\* Destruct choosing inline deletion always.
PostsToUI_Never(t) == FALSE

\* Destruct posting when either condition holds.
PostsToUI_Or(t) == isBrowserProcess \/ ~CurrentlyOn(OwnerThread, t)

\* DeleteOnUIThread::Destruct's condition for DeleteSoon, on thread t.
PostsToUI(t) == isBrowserProcess /\ ~CurrentlyOn(OwnerThread, t)

\* delete x on thread t: ~RefCountedGlobal resets handle_.
DeleteGlobal(x, t) ==
  [x EXCEPT !.phase = "deleted", !.handle_ = EmptyValue, !.deletedOn = t,
            !.releases = @ + 1]

\* DeleteOnUIThread::Destruct(x) on thread t, as the new value of the object;
\* a posted object stays intact until the task runs.
Destruct(x, t) ==
  IF PostsToUI(t)
  THEN [x EXCEPT !.phase = "posted", !.droppedOn = t, !.posted = TRUE]
  ELSE DeleteGlobal([x EXCEPT !.droppedOn = t], t)

\* SafeV8Function(isolate, value)
SafeV8Function_New(value) ==
  /\ nextGid <= MaxHandles
  /\ rcg' = [rcg EXCEPT ![nextGid] = RefCountedGlobal_New(value)]
  /\ nextGid' = nextGid + 1
  /\ UNCHANGED <<uiQueue, locals>>
  /\ CallablesUntouched

\* SafeV8Function(const SafeV8Function& other): the scoped_refptr copy AddRefs.
SafeV8Function_Copy(g) ==
  /\ HasWrapper(g)
  /\ rcg[g].refs < MaxRefs /\ rcg[g].copies < MaxRefs
  /\ rcg' = [rcg EXCEPT ![g] = [AddRef(@) EXCEPT !.copies = @ + 1]]
  /\ UNCHANGED <<nextGid, uiQueue, locals>>
  /\ CallablesUntouched

\* ~SafeV8Function() on thread t: the scoped_refptr Releases; the Release that
\* reaches zero calls DeleteOnUIThread::Destruct on that thread.
SafeV8Function_Dtor(g, t) ==
  /\ HasWrapper(g) /\ rcg[g].copies >= 1
  /\ LET x == [Release(rcg[g]) EXCEPT !.copies = @ - 1]
     IN  /\ rcg' = [rcg EXCEPT ![g] = IF x.refs = 0 THEN Destruct(x, t) ELSE x]
         /\ uiQueue' = IF x.refs = 0 /\ PostsToUI(t) THEN Append(uiQueue, g)
                       ELSE uiQueue
  /\ UNCHANGED <<nextGid, locals>>
  /\ CallablesUntouched

\* An owner thread that discards the oldest task without running it.
RunDeleteSoon_Drop ==
  /\ uiQueue # <<>>
  /\ rcg' = rcg
  /\ uiQueue' = Tail(uiQueue)
  /\ UNCHANGED <<nextGid, locals>>
  /\ CallablesUntouched

\* The UI thread runs the oldest DeleteSoon task: delete x.
RunDeleteSoon ==
  /\ uiQueue # <<>>
  /\ rcg' = [rcg EXCEPT ![Head(uiQueue)] = DeleteGlobal(@, OwnerThread)]
  /\ uiQueue' = Tail(uiQueue)
  /\ UNCHANGED <<nextGid, locals>>
  /\ CallablesUntouched

\* SafeV8Function::NewHandle(isolate) on a wrapper of object g.
SafeV8Function_NewHandle(g) ==
  /\ HasWrapper(g)
  /\ Len(locals) < MaxLocals
  /\ locals' = Append(locals, [g |-> g, ref |-> RefCountedGlobal_NewHandle(rcg[g])])
  /\ UNCHANGED <<nextGid, rcg, uiQueue>>
  /\ CallablesUntouched

HandleNext ==
  \/ \E v \in Functions \cup {EmptyValue} : SafeV8Function_New(v)
  \/ \E g \in Gids : SafeV8Function_Copy(g)
  \/ \E g \in Gids, t \in Threads : SafeV8Function_Dtor(g, t)
  \/ RunDeleteSoon
  \/ \E g \in Gids : SafeV8Function_NewHandle(g)

HandleSpec == Init /\ [][HandleNext]_vars

\* The operations that change a shared object or the owner thread's queue;
\* NewHandle is const and reads a live object only.
ReleaseNext ==
  \/ \E v \in Functions \cup {EmptyValue} : SafeV8Function_New(v)
  \/ \E g \in Gids : SafeV8Function_Copy(g)
  \/ \E g \in Gids, t \in Threads : SafeV8Function_Dtor(g, t)
  \/ RunDeleteSoon

\* The UI thread keeps running the tasks posted to it.
LiveHandleSpec ==
  /\ Init
  /\ [][ReleaseNext]_vars
  /\ WF_vars(RunDeleteSoon)

\* ------------------------------------------------- properties of HandleSpec
Dropped(g) == rcg[g].droppedOn # "none"

\* C7, as the spec states it: whenever the last reference is dropped off the
\* owner thread the release runs on the owner thread, never on the dropping
\* thread; dropped on the owner thread it runs inline.
C7_AsStated ==
  \A g \in Gids :
    Dropped(g) =>
      /\ rcg[g].droppedOn # OwnerThread =>
           /\ rcg[g].deletedOn \in {"none", OwnerThread}
           /\ rcg[g].phase = "deleted" => rcg[g].deletedOn = OwnerThread
      /\ rcg[g].droppedOn = OwnerThread =>
           (~rcg[g].posted /\ rcg[g].phase = "deleted"
              /\ rcg[g].deletedOn = OwnerThread)

\* C7, amended: in a browser process the release of an object whose last
\* reference was dropped off the owner thread runs on the owner thread, and
\* until then the object is intact; in any other process it runs inline on
\* the dropping thread; dropped on the owner thread it always runs inline.
C7_ReleaseThread ==
  \A g \in Gids :
    Dropped(g) =>
      /\ (isBrowserProcess /\ rcg[g].droppedOn # OwnerThread) =>
           /\ rcg[g].phase \in {"posted", "deleted"}
           /\ rcg[g].phase = "deleted" => rcg[g].deletedOn = OwnerThread
           /\ rcg[g].phase = "posted" =>
                (rcg[g].deletedOn = "none" /\ rcg[g].handle_ = GlobalNew(rcg[g].value))
      /\ (~isBrowserProcess /\ rcg[g].droppedOn # OwnerThread) =>
           (rcg[g].phase = "deleted" /\ rcg[g].deletedOn = rcg[g].droppedOn)
      /\ rcg[g].droppedOn = OwnerThread =>
           (rcg[g].phase = "deleted" /\ rcg[g].deletedOn = OwnerThread
              /\ rcg[g].posted = FALSE)

\* In a browser process, one object dropped off the owner thread was released
\* on the owner thread, and one dropped on the owner thread was released there.
C7_Witness ==
  /\ isBrowserProcess
  /\ \E g, h \in Gids :
       /\ rcg[g].droppedOn \notin {"none", OwnerThread}
       /\ rcg[g].phase = "deleted" /\ rcg[g].deletedOn = OwnerThread
       /\ rcg[h].droppedOn = OwnerThread /\ rcg[h].phase = "deleted"

\* C8: Destruct posts the deletion to the owner thread exactly when the
\* process is a browser process and the dropping thread is not the owner
\* thread; otherwise the object is deleted at once on the dropping thread. The
\* posted deletions are the ones queued or already run.
C8_PostsIff ==
  /\ \A g \in Gids :
       Dropped(g) =>
         /\ rcg[g].posted <=> (isBrowserProcess /\ rcg[g].droppedOn # OwnerThread)
         /\ ~rcg[g].posted =>
              (rcg[g].phase = "deleted" /\ rcg[g].deletedOn = rcg[g].droppedOn)
  /\ {uiQueue[i] : i \in 1..Len(uiQueue)} = {g \in Gids : rcg[g].phase = "posted"}

\* A deletion is waiting in the owner thread's queue while another object was
\* deleted inline.
C8_Witness ==
  \E g, h \in Gids :
    /\ rcg[g].phase = "posted" /\ uiQueue # <<>>
    /\ rcg[h].phase = "deleted" /\ ~rcg[h].posted

\* C9: a wrapper constructed from a function value is alive for as long as a
\* copy of it exists, and a wrapper that is not alive never becomes alive.
C9_IsAliveStable ==
  /\ [](\A g \in Gids :
          (HasWrapper(g) /\ rcg[g].value \in Functions) => SafeV8Function_IsAlive(g))
  /\ [][\A g \in Gids :
          (HasWrapper(g) /\ HasWrapper(g)' /\ ~SafeV8Function_IsAlive(g))
            => ~SafeV8Function_IsAlive(g)']_vars

\* A live wrapper with two copies exists beside a wrapper that is not alive.
C9_Witness ==
  \E g, h \in Gids :
    /\ HasWrapper(g) /\ rcg[g].refs >= 2 /\ SafeV8Function_IsAlive(g)
    /\ HasWrapper(h) /\ ~SafeV8Function_IsAlive(h)

NewHandleStep == Len(locals') = Len(locals) + 1

\* C10: NewHandle returns an empty reference when the wrapper is not alive and
\* a reference to the function the wrapper was constructed from when it is, and
\* leaves the object (handle, ref count) and IsAlive as they were.
C10_NewHandle ==
  [][NewHandleStep =>
       \A g \in Gids :
         locals'[Len(locals')].g = g =>
           LET ref == locals'[Len(locals')].ref
           IN  /\ ~SafeV8Function_IsAlive(g) => ref = EmptyValue
               /\ SafeV8Function_IsAlive(g) =>
                    (ref \in Functions /\ ref = rcg[g].value)
               /\ UNCHANGED rcg
               /\ SafeV8Function_IsAlive(g)' = SafeV8Function_IsAlive(g)
               /\ SubSeq(locals', 1, Len(locals)) = locals]_vars

\* NewHandle has returned an empty reference for one wrapper and a function
\* for another.
C10_Witness ==
  \E i, j \in 1..Len(locals) :
    /\ locals[i].ref = EmptyValue
    /\ locals[j].ref \in Functions /\ locals[j].ref = rcg[locals[j].g].value

\* C13: the shared object is released at most once, and exactly once when it
\* is gone; it is released or queued for release only when no wrapper copy is
\* left; while a copy exists the object is intact, its ref count is the number
\* of copies, and all copies, sharing the one object, see one IsAlive value.
C13_ReleasedOnceAfterLastCopy ==
  \A g \in Gids :
    /\ rcg[g].releases <= 1
    /\ rcg[g].releases = 1 <=> rcg[g].phase = "deleted"
    /\ rcg[g].copies >= 1 =>
         /\ rcg[g].phase = "live" /\ rcg[g].releases = 0
         /\ rcg[g].refs = rcg[g].copies
         /\ rcg[g].handle_ = GlobalNew(rcg[g].value)
         /\ SafeV8Function_IsAlive(g) <=> rcg[g].value \in Functions
    /\ rcg[g].phase \in {"posted", "deleted"} => rcg[g].copies = 0

\* One object with two copies is live while another, whose last copy was
\* dropped off the owner thread, has been released.
C13_Witness ==
  \E g, h \in Gids :
    /\ rcg[g].copies = 2 /\ rcg[g].phase = "live"
    /\ rcg[h].posted /\ rcg[h].releases = 1 /\ rcg[h].copies = 0

\* The step in which the last wrapper copy of object g is dropped on a thread
\* other than the owner thread, in a browser process.
DropOffOwner(g) ==
  /\ isBrowserProcess
  /\ ~Dropped(g)
  /\ rcg'[g].droppedOn \notin {"none", OwnerThread}

\* C18: the drop of the last copy off the owner thread is one step of the
\* dropping thread that queues the deletion and leaves the object unreleased,
\* without a step of the owner thread; and, the owner thread running its
\* tasks, every dropped object is eventually released, exactly once.
C18_DeferredReleaseCompletes ==
  /\ [][\A g \in Gids :
          DropOffOwner(g) =>
            /\ rcg'[g].phase = "posted" /\ rcg'[g].releases = 0
            /\ rcg'[g].handle_ = rcg[g].handle_
            /\ uiQueue' = Append(uiQueue, g)]_vars
  /\ [](\A g \in Gids : rcg[g].releases <= 1)
  /\ \A g \in Gids :
       Dropped(g) ~> (rcg[g].phase = "deleted" /\ rcg[g].releases = 1)

\* One posted deletion has run on the owner thread while another is still
\* waiting in its queue.
C18_Witness ==
  \E g, h \in Gids :
    /\ rcg[g].posted /\ rcg[g].deletedOn = OwnerThread /\ rcg[g].releases = 1
    /\ rcg[h].phase = "posted" /\ rcg[h].releases = 0 /\ uiQueue = <<h>>

====
